---- MODULE Spec2Model ----
(***************************************************************************)
(* A model of openprovider.py: the OpenProvider client of                  *)
(* openprovider/api.py (construction, request) and the attribute           *)
(* resolution of openprovider/models.py (Model.__getattr__, submodel).     *)
(*                                                                         *)
(* Python values are modelled as follows.  None is the string None below;  *)
(* a str is a TLA+ string; the hooks dict is a function on its keys; an    *)
(* XML element of a request is a tuple <<tag, child, ...>>; an exception   *)
(* that leaves a call is a record with a field "raised" naming its class.  *)
(***************************************************************************)
EXTENDS Integers, Sequences, FiniteSets, TLC

VARIABLES
    client,     \* the object the last OpenProvider(...) call produced, or NoClient
    ctor,       \* the arguments and the result of the last OpenProvider(...) call
    call,       \* the last request() call: its inputs, its steps, its outcome
    posted,     \* <<tree, envelope>> for every envelope this client has posted
    python,     \* the major version of the interpreter that runs the library
    model,      \* a Model object: its class, self._obj and self.attrs
    lookup      \* the attribute access made on model, with its result

clientVars == <<client, ctor, call, posted>>
modelVars == <<python, model, lookup>>
vars == <<client, ctor, call, posted, python, model, lookup>>

None == "<None>"

----------------------------------------------------------------------------
(* Bounds                                                                  *)

\* longest attribute name looked up on a Model, in pieces (see Pieces)
MaxNameLen == 3

\* most children of a wrapped element
MaxChildren == 2

----------------------------------------------------------------------------
(* openprovider/api.py                                                     *)

HOOKS == {"pre_request", "post_request"}

DefaultUrl == "https://api.openprovider.eu"

\* Python's truth value of None or a str
bool(v) == v # None /\ v # ""

\* dict.get(key): the value, or None when the key is absent
dict_get(d, k) == IF k \in DOMAIN d THEN d[k] ELSE None

\* Faulty variant: accepts any call that supplies at least one secret.
init_check_AtLeastOne(password, password_hash) ==
    bool(password) \/ bool(password_hash)

\* __init__, the guard: TRUE when construction goes on, FALSE when it
\* raises ValueError.
init_check(password, password_hash) ==
    ~(bool(password) = bool(password_hash))

\* OpenProvider(username, password, url, password_hash, hooks).  The hooks
\* argument is a dict; None and {} are both the empty function, as
\* "hooks or {}" makes them.
OpenProvider(username, password, url, password_hash, hooks) ==
    IF ~init_check(password, password_hash)
    THEN [raised |-> "ValueError",
          message |-> "Provide either a password or a password hash"]
    ELSE [raised |-> None,
          self |-> [username |-> username,
                    password |-> password,
                    password_hash |-> password_hash,
                    url |-> url,
                    hooks |-> [hook \in HOOKS |-> dict_get(hooks, hook)]]]

\* openprovider.modules.OE: an optional element, present only for a
\* non-empty value.  The result is the list of children it contributes.
OE(element, value) ==
    IF bool(value) THEN << <<element, value>> >> ELSE << >>

\* Faulty variant: writes the secret children unconditionally.
build_envelope_BothSecrets(self, tree) ==
    <<"openXML",
      <<"credentials", <<"username", self.username>>,
        <<"password", self.password>>, <<"hash", self.password_hash>> >>,
      tree>>

\* request, the envelope: openXML(credentials(username, password?, hash?),
\* tree), serialized in canonical form.  The element is its own canonical
\* serialization here: equal elements have equal bytes.
build_envelope(self, tree) ==
    <<"openXML",
      <<"credentials", <<"username", self.username>> >>
          \o OE("password", self.password)
          \o OE("hash", self.password_hash),
      tree>>

\* _run_hook: the callback's invocation, when the slot holds one.  A
\* callback observes its arguments and returns.
run_hook(self, hook, args) ==
    IF bool(self.hooks[hook])
    THEN << [ev |-> hook, args |-> args] >>
    ELSE << >>

\* requests.Response.raise_for_status: HTTPError for a 4xx or 5xx status,
\* nothing otherwise.
raise_for_status(status, url) ==
    IF 400 <= status /\ status < 500
    THEN [raised |-> "HTTPError", text |-> <<status, "Client Error", "for url", url>>]
    ELSE IF 500 <= status /\ status < 600
    THEN [raised |-> "HTTPError", text |-> <<status, "Server Error", "for url", url>>]
    ELSE [raised |-> None]

\* Faulty variant: posts a second time when the first attempt fails.
session_post_Retry(self, apirequest, x) ==
    LET post == [ev |-> "POST", args |-> <<self.url, apirequest>>]
        status == IF x.kind = "response"
                  THEN raise_for_status(x.status, self.url)
                  ELSE [raised |-> x.kind, text |-> x.text]
    IN  IF status.raised # None
        THEN [steps |-> <<post, post>>,
              raised |-> "ServiceUnavailable", message |-> status.text]
        ELSE [steps |-> <<post>>, raised |-> None, apiresponse |-> x]

\* Faulty variant: lets the transport's own exception through.
session_post_Uncaught(self, apirequest, x) ==
    LET post == [ev |-> "POST", args |-> <<self.url, apirequest>>]
        status == IF x.kind = "response"
                  THEN raise_for_status(x.status, self.url)
                  ELSE [raised |-> x.kind, text |-> x.text]
    IN  IF status.raised # None
        THEN [steps |-> <<post>>,
              raised |-> status.raised, message |-> status.text]
        ELSE [steps |-> <<post>>, raised |-> None, apiresponse |-> x]

\* request, the try block: one session.post, then raise_for_status; a
\* requests.RequestException of either becomes ServiceUnavailable(str(e)).
\* x is what the network does with this POST: a RequestException of
\* session.post (x.kind its class, x.text its text), or a response.
session_post(self, apirequest, x) ==
    LET post == [ev |-> "POST", args |-> <<self.url, apirequest>>]
        status == IF x.kind = "response"
                  THEN raise_for_status(x.status, self.url)
                  ELSE [raised |-> x.kind, text |-> x.text]
    IN  IF status.raised # None
        THEN [steps |-> <<post>>,
              raised |-> "ServiceUnavailable", message |-> status.text]
        ELSE [steps |-> <<post>>, raised |-> None, apiresponse |-> x]

\* lxml.objectify.fromstring(content): the tree, or XMLSyntaxError
fromstring(content) ==
    IF content.wellformed
    THEN [raised |-> None, tree |-> content.tree]
    ELSE [raised |-> "XMLSyntaxError"]

\* openprovider.data.exception_map.from_code: the exception class of a
\* reply code, with a generic class for a code the table does not hold.
ErrorTable ==
    [c \in {196, 346} |-> IF c = 196 THEN "AuthenticationFailed"
                                      ELSE "DomainNotAvailable"]

from_code(code) ==
    IF code \in DOMAIN ErrorTable THEN ErrorTable[code] ELSE "OpenproviderError"

\* Faulty variant: leaves the data out of the message.
dispatch_DropData(responsetree) ==
    LET reply == responsetree.reply
    IN  IF reply.code = 0
        THEN [raised |-> None, returned |-> [class |-> "Response", tree |-> responsetree]]
        ELSE [raised |-> from_code(reply.code),
              message |-> <<reply.desc, " (", reply.code, ") ", "">>,
              code |-> reply.code]

\* request, the reply-code dispatch: Response(responsetree) for code 0,
\* else klass("{0} ({1}) {2}".format(desc, code, data), code) with
\* data = getattr(reply, 'data', '').
dispatch(responsetree) ==
    LET reply == responsetree.reply
    IN  IF reply.code = 0
        THEN [raised |-> None, returned |-> [class |-> "Response", tree |-> responsetree]]
        ELSE LET klass == from_code(reply.code)
                 desc == reply.desc
                 code == reply.code
                 data == IF "data" \in DOMAIN reply THEN reply.data ELSE ""
             IN  [raised |-> klass,
                  message |-> <<desc, " (", code, ") ", data>>,
                  code |-> code]

\* Faulty variant: runs the post_request hook only for a reply it returns.
request_PostHookOnSuccess(self, tree, x) ==
    LET apirequest == build_envelope(self, tree)
        build == << [ev |-> "build", args |-> <<tree>>] >>
        pre == run_hook(self, "pre_request", <<tree, apirequest>>)
        sent == session_post(self, apirequest, x)
    IN  IF sent.raised # None
        THEN [self |-> self, steps |-> build \o pre \o sent.steps,
              outcome |-> [raised |-> sent.raised, message |-> sent.message]]
        ELSE
        LET parsed == fromstring(sent.apiresponse.content)
            parse == << [ev |-> "parse", args |-> <<sent.apiresponse.content>>] >>
        IN  IF parsed.raised # None
            THEN [self |-> self, steps |-> build \o pre \o sent.steps \o parse,
                  outcome |-> [raised |-> parsed.raised]]
            ELSE
            LET post == IF parsed.tree.reply.code = 0
                        THEN run_hook(self, "post_request",
                                      <<sent.apiresponse, parsed.tree>>)
                        ELSE << >>
                inspect == << [ev |-> "dispatch", args |-> <<parsed.tree>>] >>
            IN  [self |-> self,
                 steps |-> build \o pre \o sent.steps \o parse \o post \o inspect,
                 outcome |-> dispatch(parsed.tree)]

\* request(tree): the steps the call takes, in order, the outcome that
\* reaches the caller, and the client as the call leaves it.
request(self, tree, x) ==
    LET apirequest == build_envelope(self, tree)
        build == << [ev |-> "build", args |-> <<tree>>] >>
        pre == run_hook(self, "pre_request", <<tree, apirequest>>)
        sent == session_post(self, apirequest, x)
    IN  IF sent.raised # None
        THEN [self |-> self, steps |-> build \o pre \o sent.steps,
              outcome |-> [raised |-> sent.raised, message |-> sent.message]]
        ELSE
        LET parsed == fromstring(sent.apiresponse.content)
            parse == << [ev |-> "parse", args |-> <<sent.apiresponse.content>>] >>
        IN  IF parsed.raised # None
            THEN [self |-> self, steps |-> build \o pre \o sent.steps \o parse,
                  outcome |-> [raised |-> parsed.raised]]
            ELSE
            LET post == run_hook(self, "post_request",
                                 <<sent.apiresponse, parsed.tree>>)
                inspect == << [ev |-> "dispatch", args |-> <<parsed.tree>>] >>
            IN  [self |-> self,
                 steps |-> build \o pre \o sent.steps \o parse \o post \o inspect,
                 outcome |-> dispatch(parsed.tree)]

----------------------------------------------------------------------------
(* The client's inputs                                                     *)

Usernames == {"alice", "bob"}
Passwords == {None, "", "secret"}
Hashes == {None, "", "5f4dcc3b"}
Urls == {DefaultUrl, "https://api.cte.openprovider.eu"}
HookDicts == UNION {[S -> {"callback"}] : S \in SUBSET HOOKS}

Payloads == {<<"checkDomainRequest">>, <<"searchCustomerRequest">>}

Statuses == {200, 304, 404, 503}
Replies ==
    {[code |-> c, desc |-> "Domain not available"] : c \in {0, 196, 346, 4005}}
    \cup {[code |-> c, desc |-> "Domain not available", data |-> "example.com"] :
            c \in {0, 196, 346, 4005}}
Contents ==
    {[wellformed |-> FALSE]}
    \cup {[wellformed |-> TRUE, tree |-> [reply |-> r]] : r \in Replies}
Exchanges ==
    {[kind |-> "ConnectionError", text |-> <<"Connection refused">>],
     [kind |-> "Timeout", text |-> <<"Read timed out">>]}
    \cup {[kind |-> "response", status |-> s, content |-> b] :
            s \in Statuses, b \in Contents}

NoClient == [class |-> None]
NoCall == [made |-> FALSE]
NoCtor == [made |-> FALSE]
NoModel == [class |-> None]
NoLookup == [made |-> FALSE]


----------------------------------------------------------------------------
(* openprovider/models.py                                                  *)

(* An attribute name is a sequence of pieces: a lower-case word, a         *)
(* capitalized word, or the underscore.  company_name is                   *)
(* <<"company", "_", "name">> and companyName is <<"company", "Name">>.    *)
Pieces == {"company", "name", "Name", "_", "address", "attrs"}
Names == UNION {[1..n -> Pieces] : n \in 1..MaxNameLen}

\* str.capitalize on one piece
Capitalize(p) ==
    CASE p = "company" -> "Company"
      [] p = "name" -> "Name"
      [] p = "address" -> "Address"
      [] p = "attrs" -> "Attrs"
      [] OTHER -> p

RECURSIVE camel(_, _)
camel(s, up) ==
    IF s = << >> THEN << >>
    ELSE IF Head(s) = "_" THEN camel(Tail(s), TRUE)
    ELSE <<IF up THEN Capitalize(Head(s)) ELSE Head(s)>> \o camel(Tail(s), FALSE)

\* openprovider.util.snake_to_camel: the underscores go, and the word after
\* each is capitalized (company_name -> companyName).
snake_to_camel(value) == camel(value, FALSE)

\* Python values a lookup can yield
Str(s) == [type |-> "str", v |-> s]
Dict(d) == [type |-> "dict", v |-> d]
Elem(child) == [type |-> "element", v |-> child]
Wrapper(klass, elem) == [type |-> klass, v |-> elem]
Method(name) == [type |-> "method", v |-> name]

\* self.attrs, a dict: its items <<key, value>> in the order the dict lists
\* them, each key once.
dict_keys(d) == [i \in DOMAIN d |-> d[i][1]]
dict_has(d, k) == \E i \in DOMAIN d : d[i][1] = k
dict_item(d, k) == d[CHOOSE i \in DOMAIN d : d[i][1] = k][2]

\* self._obj: None, or an objectified element with its children in
\* document order; a tag may repeat.  A child is known by its tag and its
\* place.
NoneObj == [isNone |-> TRUE]
Element(tags) ==
    [isNone |-> FALSE,
     children |-> [i \in DOMAIN tags |-> [tag |-> tags[i], index |-> i]]]

\* hasattr(obj, attr) and getattr(obj, attr) on self._obj, for the names of
\* Names: the first child of the element with that tag, nothing on None.
obj_hasattr(obj, attr) ==
    ~obj.isNone /\ \E i \in DOMAIN obj.children : obj.children[i].tag = attr
obj_getattr(obj, attr) ==
    LET first == CHOOSE i \in DOMAIN obj.children :
                     /\ obj.children[i].tag = attr
                     /\ \A j \in 1..(i - 1) : obj.children[j].tag # attr
    IN  obj.children[first]

\* [t.tag for t in obj.iterchildren()]
obj_tags(obj) == [i \in DOMAIN obj.children |-> obj.children[i].tag]

\* The has-a fields a class declares with submodel(klass, key):
\* attribute name -> <<klass, key>>
Submodels(class) ==
    IF class \in {"Customer", "Reseller"}
    THEN [a \in {<<"address">>, <<"phone">>, <<"fax">>} |->
            IF a = <<"address">> THEN <<"Address", a>> ELSE <<"Phone", a>>]
    ELSE << >>

\* The methods every Model class has
Methods == {<<"get", "_", "elem">>, <<"dump">>}

\* What Model.__init__ puts in self.__dict__
InstanceDict == {<<"_", "obj">>, <<"attrs">>}

\* An attribute the object has without __getattr__: self._obj, self.attrs
\* or a method.
plain_getattr(self, attr) ==
    IF attr = <<"attrs">> THEN Dict(self.attrs)
    ELSE IF attr = <<"_", "obj">> THEN Wrapper("element", self.obj)
    ELSE Method(attr)

\* Faulty variant: looks the name up as given, without the case conversion.
Model_getattr_NoConversion(self, attr0, py) ==
    LET attr == attr0
    IN  IF attr \in InstanceDict
        THEN [raised |-> None, value |-> plain_getattr(self, attr)]
        ELSE IF dict_has(self.attrs, attr)
        THEN [raised |-> None, value |-> Str(dict_item(self.attrs, attr))]
        ELSE IF obj_hasattr(self.obj, attr)
        THEN [raised |-> None, value |-> Elem(obj_getattr(self.obj, attr))]
        ELSE [raised |-> "AttributeError", attr |-> attr,
              tried |-> dict_keys(self.attrs)
                        \o (IF self.obj.isNone THEN << >>
                            ELSE obj_tags(self.obj))]

\* Faulty variant: converts only a name that starts with an underscore.
Model_getattr_LeadingUnderscore(self, attr0, py) ==
    LET attr == IF Head(attr0) = "_" THEN snake_to_camel(attr0) ELSE attr0
    IN  IF attr \in InstanceDict
        THEN [raised |-> None, value |-> plain_getattr(self, attr)]
        ELSE IF dict_has(self.attrs, attr)
        THEN [raised |-> None, value |-> Str(dict_item(self.attrs, attr))]
        ELSE IF obj_hasattr(self.obj, attr)
        THEN [raised |-> None, value |-> Elem(obj_getattr(self.obj, attr))]
        ELSE [raised |-> "AttributeError", attr |-> attr,
              tried |-> dict_keys(self.attrs)
                        \o (IF self.obj.isNone THEN << >>
                            ELSE obj_tags(self.obj))]

\* Faulty variant: tries the wrapped element before the override mapping.
Model_getattr_ObjFirst(self, attr0, py) ==
    LET attr == IF "_" \in {attr0[i] : i \in DOMAIN attr0}
                THEN snake_to_camel(attr0) ELSE attr0
    IN  IF attr \in InstanceDict
        THEN [raised |-> None, value |-> plain_getattr(self, attr)]
        ELSE IF obj_hasattr(self.obj, attr)
        THEN [raised |-> None, value |-> Elem(obj_getattr(self.obj, attr))]
        ELSE IF dict_has(self.attrs, attr)
        THEN [raised |-> None, value |-> Str(dict_item(self.attrs, attr))]
        ELSE [raised |-> "AttributeError", attr |-> attr,
              tried |-> dict_keys(self.attrs)
                        \o (IF self.obj.isNone THEN << >>
                            ELSE obj_tags(self.obj))]

\* Model.__getattr__(attr): the name is converted when it holds an
\* underscore, then tried on the object itself, on self.attrs and on
\* self._obj.  With no match the error message is built from
\* attr_keys + obj_keys: under Python 2 the dict's keys in the dict's order
\* and then the children's tags in document order; under Python 3
\* self.attrs.keys() is a view, and view + list raises TypeError.
Model_getattr(self, attr0, py) ==
    LET attr == IF "_" \in {attr0[i] : i \in DOMAIN attr0}
                THEN snake_to_camel(attr0) ELSE attr0
    IN  IF attr \in InstanceDict
        THEN [raised |-> None, value |-> plain_getattr(self, attr)]
        ELSE IF dict_has(self.attrs, attr)
        THEN [raised |-> None, value |-> Str(dict_item(self.attrs, attr))]
        ELSE IF obj_hasattr(self.obj, attr)
        THEN [raised |-> None, value |-> Elem(obj_getattr(self.obj, attr))]
        ELSE LET attr_keys == dict_keys(self.attrs)
                 obj_keys == IF ~self.obj.isNone /\ Len(self.obj.children) > 0
                             THEN obj_tags(self.obj)
                             ELSE << >>
             IN  IF py = 2
                 THEN [raised |-> "AttributeError", attr |-> attr,
                       tried |-> attr_keys \o obj_keys]
                 ELSE [raised |-> "TypeError"]

\* submodel(klass, key), the getter: klass(getattr(self._obj, key)), or the
\* AttributeError of that getattr.
submodel_getter(self, klass, key) ==
    IF obj_hasattr(self.obj, key)
    THEN [raised |-> None, value |-> Wrapper(klass, obj_getattr(self.obj, key))]
    ELSE [raised |-> "AttributeError"]

\* self.<attr> on a Model object, as Python resolves it: a property of the
\* class first (and __getattr__ when its getter raises AttributeError),
\* then the instance's own attributes and the class's methods, and
\* __getattr__ for any other name.
getattr(self, attr, py) ==
    IF attr \in DOMAIN Submodels(self.class)
    THEN LET sub == Submodels(self.class)[attr]
             got == submodel_getter(self, sub[1], sub[2])
         IN  IF got.raised = None THEN got ELSE Model_getattr(self, attr, py)
    ELSE IF attr \in InstanceDict \cup Methods
    THEN [raised |-> None, value |-> plain_getattr(self, attr)]
    ELSE Model_getattr(self, attr, py)

\* Model.__init__(obj, **kwargs)
Model_init(class, obj, kwargs) == [class |-> class, obj |-> obj, attrs |-> kwargs]

----------------------------------------------------------------------------
(* The Model's inputs                                                      *)

Classes == {"Model", "Customer"}
OverrideKeys == {<<"company", "Name">>, <<"company", "_", "name">>, <<"address">>}
ChildTags == {<<"company", "Name">>, <<"company", "_", "name">>, <<"address">>}

\* The value a keyword argument gives a key
KwargValue(k) ==
    CASE k = <<"company", "Name">> -> "kw companyName"
      [] k = <<"company", "_", "name">> -> "kw company_name"
      [] OTHER -> "kw address"

\* The lists of distinct elements of S, and the lists over S of a length
Orders(S) ==
    {q \in UNION {[1..n -> S] : n \in 0..Cardinality(S)} :
        \A i, j \in DOMAIN q : i # j => q[i] # q[j]}
Lists(S, maxLen) == UNION {[1..n -> S] : n \in 0..maxLen}

\* **kwargs: any keys of OverrideKeys, listed by the dict in any order
Kwargs ==
    {[i \in DOMAIN q |-> <<q[i], KwargValue(q[i])>>] : q \in Orders(OverrideKeys)}

\* obj: None, or an element with up to MaxChildren children
Objs == {NoneObj} \cup {Element(tags) : tags \in Lists(ChildTags, MaxChildren)}

----------------------------------------------------------------------------
(* The client as a state machine: construct, then any number of requests   *)

\* OpenProvider(username, password, url, password_hash, hooks).  One client
\* is followed from its construction on.
Construct ==
    /\ client = NoClient
    /\ \E username \in Usernames, password \in Passwords, url \in Urls,
          password_hash \in Hashes, hooks \in HookDicts :
         LET r == OpenProvider(username, password, url, password_hash, hooks)
         IN  /\ ctor' = [made |-> TRUE, username |-> username,
                         password |-> password, url |-> url,
                         password_hash |-> password_hash,
                         hooks |-> hooks, raised |-> r.raised]
             /\ client' = IF r.raised = None THEN r.self ELSE NoClient
    /\ call' = NoCall
    /\ posted' = {}
    /\ UNCHANGED modelVars

\* client.request(tree), with x what the network does with the POST
Request ==
    /\ client # NoClient
    /\ \E tree \in Payloads, x \in Exchanges :
         LET r == request(client, tree, x)
         IN  /\ call' = [made |-> TRUE, tree |-> tree, x |-> x, self |-> client,
                         steps |-> r.steps, outcome |-> r.outcome]
             /\ client' = r.self
             /\ posted' = posted \cup
                    {<<tree, r.steps[i].args[2]>> :
                        i \in {j \in DOMAIN r.steps : r.steps[j].ev = "POST"}}
    /\ UNCHANGED <<ctor, modelVars>>

Init ==
    /\ client = NoClient
    /\ ctor = NoCtor
    /\ call = NoCall
    /\ posted = {}
    /\ python = 3
    /\ model = NoModel
    /\ lookup = NoLookup

Next ==
    \/ Construct
    \/ Request

Spec == Init /\ [][Next]_vars

----------------------------------------------------------------------------
(* A Model as a state machine: construct, then look attributes up          *)

\* class(obj, **kwargs)
NewModel ==
    /\ model = NoModel
    /\ \E class \in Classes, obj \in Objs, kwargs \in Kwargs :
         model' = Model_init(class, obj, kwargs)
    /\ UNCHANGED <<clientVars, python, lookup>>

\* model.<attr>; the caller takes the result before the next access.
GetAttr ==
    /\ model # NoModel
    /\ ~lookup.made
    /\ \E attr \in Names :
         lookup' = [made |-> TRUE, attr |-> attr,
                    result |-> getattr(model, attr, python)]
    /\ UNCHANGED <<clientVars, python, model>>

Take ==
    /\ lookup.made
    /\ lookup' = NoLookup
    /\ UNCHANGED <<clientVars, python, model>>

\* The interpreter is Python 2 or Python 3.
ModelInit ==
    /\ client = NoClient
    /\ ctor = NoCtor
    /\ call = NoCall
    /\ posted = {}
    /\ python \in {2, 3}
    /\ model = NoModel
    /\ lookup = NoLookup

ModelNext ==
    \/ NewModel
    \/ GetAttr
    \/ Take

ModelSpec == ModelInit /\ [][ModelNext]_vars

----------------------------------------------------------------------------
(* Properties of the client (checked under Spec)                           *)

\* A secret counts as set when it is neither None nor the empty string.
IsSet(v) == v \notin {None, ""}

PostCount(steps) == Cardinality({i \in DOMAIN steps : steps[i].ev = "POST"})

\* The POST raised a requests.RequestException: no connection, a timeout,
\* or a status raise_for_status rejects.
TransportRaised(x) ==
    \/ x.kind \in {"ConnectionError", "Timeout"}
    \/ x.kind = "response" /\ x.status >= 400 /\ x.status <= 599

\* The response arrived and parsed.
Parsed(x) == ~TransportRaised(x) /\ x.content.wellformed

\* C1: construction with both secrets set, or with neither, fails with
\* ValueError and yields no client; with exactly one set it succeeds.
C1_CredentialInvariant ==
    ctor.made =>
        IF IsSet(ctor.password) = IsSet(ctor.password_hash)
        THEN ctor.raised = "ValueError" /\ client = NoClient
        ELSE ctor.raised = None /\ client # NoClient

C1_Witness ==
    /\ ctor.made
    /\ ctor.password = "secret" /\ ctor.password_hash = "5f4dcc3b"
    /\ ctor.raised = "ValueError"

\* C2 as stated: when the exchange fails by connection failure, timeout or
\* a non-2xx status, request() raises ServiceUnavailable with the text of
\* the transport error.
C2_Original ==
    (call.made /\ (\/ call.x.kind \in {"ConnectionError", "Timeout"}
                   \/ call.x.kind = "response"
                      /\ ~(call.x.status >= 200 /\ call.x.status <= 299)))
        => call.outcome.raised = "ServiceUnavailable"

\* C2 as amended: when the exchange fails by connection failure, timeout or
\* a 4xx or 5xx status, request() raises ServiceUnavailable with the text
\* of the transport error, for every payload.
C2_TransportFailure ==
    (call.made /\ TransportRaised(call.x)) =>
        /\ call.outcome.raised = "ServiceUnavailable"
        /\ call.outcome.message =
              IF call.x.kind = "response"
              THEN raise_for_status(call.x.status, call.self.url).text
              ELSE call.x.text

C2_Witness ==
    /\ call.made
    /\ call.x.kind = "response" /\ call.x.status = 503
    /\ call.outcome.raised = "ServiceUnavailable"

\* C3: one request() call makes exactly one POST, and a failed attempt
\* (transport failure, malformed response, non-zero reply code) leaves the
\* same call as an exception.
C3_SinglePost ==
    call.made =>
        /\ PostCount(call.steps) = 1
        /\ (\/ TransportRaised(call.x)
            \/ ~call.x.content.wellformed
            \/ call.x.content.tree.reply.code # 0)
               => call.outcome.raised # None

C3_Witness ==
    /\ call.made
    /\ call.x.kind = "Timeout"
    /\ PostCount(call.steps) = 1
    /\ call.outcome.raised # None

\* C4: for a well-formed response, request() returns a Response on the
\* parsed tree exactly for reply code 0, and for any other code raises the
\* class the error table gives, with the message "desc (code) data" (data
\* empty when the reply has none) and the code on the exception.
C4_ReplyDispatch ==
    (call.made /\ Parsed(call.x)) =>
        LET tree == call.x.content.tree
            reply == tree.reply
        IN  IF reply.code = 0
            THEN /\ call.outcome.raised = None
                 /\ call.outcome.returned = [class |-> "Response", tree |-> tree]
            ELSE /\ call.outcome.raised = from_code(reply.code)
                 /\ call.outcome.message =
                       <<reply.desc, " (", reply.code, ") ",
                         IF "data" \in DOMAIN reply THEN reply.data ELSE "">>
                 /\ call.outcome.code = reply.code

C4_Witness ==
    /\ call.made /\ Parsed(call.x)
    /\ call.x.content.tree.reply = [code |-> 346, desc |-> "Domain not available"]
    /\ call.outcome.message = <<"Domain not available", " (", 346, ") ", "">>

\* The place of a step in the order of request()
Rank(ev) ==
    CASE ev = "build" -> 1
      [] ev = "pre_request" -> 2
      [] ev = "POST" -> 3
      [] ev = "parse" -> 4
      [] ev = "post_request" -> 5
      [] ev = "dispatch" -> 6

StepsOf(steps, ev) == {i \in DOMAIN steps : steps[i].ev = ev}

\* C5: the steps of one call come in the order build, pre_request, POST,
\* parse, post_request, dispatch.  A pre_request hook is called, with the
\* payload and the envelope, before every POST, whatever the POST does; a
\* post_request hook is called, with the response and the tree, exactly
\* when the POST and the parse succeeded, whatever the reply code; a slot
\* without a hook adds no step and changes nothing else.
C5_HookOrder ==
    call.made =>
        LET steps == call.steps
            envelope == steps[CHOOSE i \in StepsOf(steps, "POST") : TRUE].args[2]
            bare == request([call.self EXCEPT !.hooks = [h \in HOOKS |-> None]],
                            call.tree, call.x)
        IN  /\ \A i, j \in DOMAIN steps :
                  i < j => Rank(steps[i].ev) < Rank(steps[j].ev)
            /\ steps[1].ev = "build"
            /\ IF call.self.hooks["pre_request"] # None
               THEN \E i \in StepsOf(steps, "pre_request") :
                        steps[i].args = <<call.tree, envelope>>
               ELSE StepsOf(steps, "pre_request") = {}
            /\ IF call.self.hooks["post_request"] # None /\ Parsed(call.x)
               THEN \E i \in StepsOf(steps, "post_request") :
                        steps[i].args = <<call.x, call.x.content.tree>>
               ELSE StepsOf(steps, "post_request") = {}
            /\ (StepsOf(steps, "dispatch") # {}) = Parsed(call.x)
            /\ SelectSeq(steps, LAMBDA e : e.ev \notin HOOKS) = bare.steps
            /\ call.outcome = bare.outcome

C5_Witness ==
    /\ call.made
    /\ call.self.hooks["pre_request"] # None
    /\ call.self.hooks["post_request"] # None
    /\ Parsed(call.x)
    /\ call.x.content.tree.reply.code = 346
    /\ StepsOf(call.steps, "post_request") # {}

\* C10: every posted envelope holds the credentials (the username and the
\* one secret given at construction) before the payload; request() leaves
\* the client's username, secrets, url and hooks as construction set them,
\* and one payload yields one envelope however many calls are made.
C10_EnvelopeCredentials ==
    client # NoClient =>
        LET secret == IF IsSet(ctor.password)
                      THEN <<"password", ctor.password>>
                      ELSE <<"hash", ctor.password_hash>>
        IN  /\ client.username = ctor.username
            /\ client.password = ctor.password
            /\ client.password_hash = ctor.password_hash
            /\ client.url = ctor.url
            /\ \A h \in HOOKS : client.hooks[h] = dict_get(ctor.hooks, h)
            /\ \A p \in posted :
                  p[2] = <<"openXML",
                           <<"credentials", <<"username", ctor.username>>, secret>>,
                           p[1]>>
            /\ \A p, q \in posted : p[1] = q[1] => p = q
            /\ call.made => <<call.tree, build_envelope(client, call.tree)>> \in posted

C10_Witness ==
    /\ call.made
    /\ call.outcome.raised = "ServiceUnavailable"
    /\ Cardinality(posted) = 2
    /\ ctor.password = "" /\ ctor.password_hash = "5f4dcc3b"

----------------------------------------------------------------------------
(* Properties of Model (checked under ModelSpec)                           *)

HasUnderscore(n) == "_" \in {n[i] : i \in DOMAIN n}

\* The keys of self.attrs and the tags of the children of self._obj
AttrKeys == {model.attrs[i][1] : i \in DOMAIN model.attrs}
ObjTags ==
    IF model.obj.isNone THEN {}
    ELSE {model.obj.children[i].tag : i \in DOMAIN model.obj.children}

\* The value self.attrs holds for a key, and the first child with a tag
Override(k) == model.attrs[CHOOSE i \in DOMAIN model.attrs : model.attrs[i][1] = k][2]
FirstChild(t) ==
    model.obj.children[CHOOSE i \in DOMAIN model.obj.children :
                           /\ model.obj.children[i].tag = t
                           /\ \A j \in DOMAIN model.obj.children :
                                  model.obj.children[j].tag = t => i <= j]

\* The lookup returned: this str, this child element, this nested wrapper
ReturnedStr(text) ==
    /\ lookup.result.raised = None
    /\ lookup.result.value.type = "str"
    /\ lookup.result.value.v = text
ReturnedChild(child) ==
    /\ lookup.result.raised = None
    /\ lookup.result.value.type = "element"
    /\ lookup.result.value.v = child
ReturnedWrapper(klass, child) ==
    /\ lookup.result.raised = None
    /\ lookup.result.value.type = klass
    /\ lookup.result.value.v = child

\* The name after the conversion __getattr__ is documented to make
Converted(n) == IF HasUnderscore(n) THEN snake_to_camel(n) ELSE n

\* Names the wrapper object or its class defines themselves
Declared(class) == DOMAIN Submodels(class) \cup InstanceDict \cup Methods

LowerWords == {"company", "name", "address", "attrs"}

\* C6 as stated: an override key is found under the name exactly as given,
\* a key with an underscore included.
C6_Original ==
    (/\ lookup.made
     /\ lookup.attr \in AttrKeys
     /\ HasUnderscore(lookup.attr)
     /\ lookup.attr \notin Declared(model.class))
        => ReturnedStr(Override(lookup.attr))

\* C6 as amended: the override mapping is looked up with the name after
\* the snake_case-to-camelCase conversion.  For a requested name that the
\* wrapper does not define itself and whose converted form is an override
\* key, the lookup returns the override stored under the converted form; so
\* every override key without an underscore is found under its own name.
C6_OverrideLookup ==
    (/\ lookup.made
     /\ lookup.attr \notin Declared(model.class)
     /\ Converted(lookup.attr) \notin InstanceDict
     /\ Converted(lookup.attr) \in AttrKeys)
        => ReturnedStr(Override(Converted(lookup.attr)))

C6_Witness ==
    /\ lookup.made
    /\ lookup.attr = <<"company", "_", "name">>
    /\ AttrKeys = {<<"company", "Name">>, <<"company", "_", "name">>}
    /\ ReturnedStr("kw companyName")

\* C7: when the wrapped subtree has a camelCase child, the lookup by the
\* camelCase name and the lookup by the underscore-separated name both
\* succeed, with the same value.
C7_CaseBridging ==
    \A w1, w2 \in LowerWords :
        LET camelName == <<w1, Capitalize(w2)>>
            snakeName == <<w1, "_", w2>>
        IN  (/\ lookup.made
             /\ lookup.attr \in {camelName, snakeName}
             /\ camelName \in ObjTags)
                => IF camelName \in AttrKeys
                   THEN ReturnedStr(Override(camelName))
                   ELSE ReturnedChild(FirstChild(camelName))

C7_Witness ==
    /\ lookup.made
    /\ lookup.attr = <<"company", "_", "name">>
    /\ ~model.obj.isNone
    /\ obj_tags(model.obj) = << <<"company", "_", "name">>, <<"company", "Name">> >>
    /\ model.attrs = << >>
    /\ ReturnedChild([tag |-> <<"company", "Name">>, index |-> 2])

\* C8 as stated: a field that the override mapping and the subtree both
\* define resolves to the override, a declared has-a field included.
C8_Original ==
    (/\ lookup.made
     /\ lookup.attr \in DOMAIN Submodels(model.class)
     /\ lookup.attr \in AttrKeys
     /\ lookup.attr \in ObjTags)
        => ReturnedStr(Override(lookup.attr))

\* C8 as amended: for a requested name that the wrapper does not define
\* itself and whose converted form both the override mapping and the
\* subtree define, the lookup returns the override; a declared has-a field
\* that the subtree defines resolves to the nested wrapper over the
\* subtree's child, whatever the override mapping holds.
C8_OverridePrecedence ==
    lookup.made =>
        /\ (/\ lookup.attr \notin Declared(model.class)
            /\ Converted(lookup.attr) \notin InstanceDict
            /\ Converted(lookup.attr) \in AttrKeys
            /\ Converted(lookup.attr) \in ObjTags)
               => ReturnedStr(Override(Converted(lookup.attr)))
        /\ (/\ lookup.attr \in DOMAIN Submodels(model.class)
            /\ lookup.attr \in ObjTags)
               => ReturnedWrapper(Submodels(model.class)[lookup.attr][1],
                                   FirstChild(lookup.attr))

C8_Witness ==
    /\ lookup.made
    /\ model.class = "Customer"
    /\ lookup.attr = <<"company", "Name">>
    /\ lookup.attr \in AttrKeys
    /\ lookup.attr \in ObjTags
    /\ ReturnedStr("kw companyName")

\* C9: a name that matches neither an override key nor, after conversion,
\* a child of the subtree fails with AttributeError, whose message lists
\* the override keys and the subtree's child tags; also with no subtree
\* and with no overrides, and with no other error.
C9_AttributeError ==
    (/\ lookup.made
     /\ lookup.attr \notin Declared(model.class)
     /\ Converted(lookup.attr) \notin InstanceDict
     /\ Converted(lookup.attr) \notin AttrKeys
     /\ Converted(lookup.attr) \notin ObjTags)
        => /\ lookup.result.raised = "AttributeError"
           /\ {lookup.result.tried[i] : i \in DOMAIN lookup.result.tried} =
                 AttrKeys \cup ObjTags

====
